---------------------------- MODULE Spec2Model ----------------------------
(***************************************************************************)
(* A model of chainer.links.Deconvolution2D                                *)
(* (chainer/links/connection/deconvolution_2d.py): the constructor, the    *)
(* lazy shape finalization of the weight parameter and the invocation.     *)
(*                                                                         *)
(* Python values are tagged records, so that None, an int and a tuple can  *)
(* be told apart the way the code tells them apart (is None, hasattr       *)
(* __getitem__, isinstance).  An array is modelled by its shape and by the *)
(* initializer that filled it; the numbers in it are not modelled.         *)
(***************************************************************************)
EXTENDS Integers, Sequences, FiniteSets, TLC

VARIABLES
    pc,       \* "new": not constructed; "ready": __init__ returned; "failed": __init__ raised
    args,     \* the arguments __init__ was called with
    self,     \* the attributes of the link
    opArgs,   \* the arguments of the last call of functions.deconvolution_2d
    ret,      \* what the last invocation returned, or the error it raised
    twin,     \* a second link, built from the spelled-out form of the same arguments
    threads   \* per thread, the position inside __call__ and its locals

vars == <<pc, args, self, opArgs, ret, twin, threads>>

---------------------------------------------------------------------------
(* Bounds of the model. *)

MaxChannels == 3
MaxStride == 2
MaxPad == 1
MaxBatch == 1
NumThreads == 2

---------------------------------------------------------------------------
(* Python values. *)

None == [tag |-> "None"]
Unset == [tag |-> "unset"]
PyInt(n) == [tag |-> "int", val |-> n]
PyTuple(s) == [tag |-> "tuple", val |-> s]
PyPair(a, b) == PyTuple(<<PyInt(a), PyInt(b)>>)
Initializer(kind) == [tag |-> "initializer", kind |-> kind]
ndarray(shape, fill) == [tag |-> "ndarray", shape |-> shape, fill |-> fill]
Parameter(initializer, data) ==
    [tag |-> "Parameter", initializer |-> initializer, data |-> data]
Raised(kind) == [tag |-> "error", kind |-> kind]

\* hasattr(x, '__getitem__')
HasGetitem(x) == x.tag = "tuple"

\* isinstance(x, (numpy.ndarray, cuda.ndarray))
IsArray(x) == x.tag = "ndarray"

---------------------------------------------------------------------------
(* _pair *)

_pair(x) == IF HasGetitem(x) THEN x ELSE PyTuple(<<x, x>>)

---------------------------------------------------------------------------
(* initializers._get_initializer and Parameter.initialize, as far as the   *)
(* link relies on them: which initializer fills an array.                  *)

_get_initializer(x) ==
    IF x = None THEN Initializer("default")
    ELSE IF IsArray(x) THEN Initializer("array")
    ELSE x

\* Link.add_param(name, shape, initializer): registers the parameter; with
\* no shape its data stays None.
add_param(s, name, shape, initializer) ==
    LET p == Parameter(initializer,
                       IF shape = None THEN None
                       ELSE ndarray(<<shape.val>>, initializer.kind))
    IN  IF name = "W"
        THEN [s EXCEPT !._params = Append(@, name), !.W = p]
        ELSE [s EXCEPT !._params = Append(@, name), !.b = p]

\* Parameter.initialize(shape) on self.W
InitializeW(s, shape) ==
    [s EXCEPT !.W.data = ndarray(shape, s.W.initializer.kind)]

\* faulty variant: the first two axes of W_shape exchanged
InitializeParamsWithOutChannelsFirst(s, in_channels) ==
    LET k == _pair(s.ksize)
    IN  InitializeW(s, <<s.out_channels.val, in_channels,
                         k.val[1].val, k.val[2].val>>)

\* lines 153-156
_initialize_params(s, in_channels) ==
    LET k == _pair(s.ksize)
        kh == k.val[1].val
        kw == k.val[2].val
        W_shape == <<in_channels, s.out_channels.val, kh, kw>>
    IN  InitializeW(s, W_shape)

---------------------------------------------------------------------------
(* Deconvolution2D.__init__ *)

\* faulty variant: in_channels is not reset to None
ShuffleKeepsInChannels(a) ==
    IF a.ksize = None
    THEN [a EXCEPT !.out_channels = a.in_channels, !.ksize = a.out_channels]
    ELSE a

\* lines 124-125: with ksize omitted the two leading arguments are
\* (out_channels, ksize) and in_channels is unknown.
Shuffle(a) ==
    IF a.ksize = None
    THEN [a EXCEPT !.out_channels = a.in_channels,
                   !.ksize = a.out_channels,
                   !.in_channels = None]
    ELSE a

\* faulty variant: stride stored without _pair
AttributesWithRawStride(a) ==
    [ksize |-> a.ksize,
     stride |-> a.stride,
     pad |-> _pair(a.pad),
     outsize |-> IF a.outsize = None THEN PyTuple(<<None, None>>) ELSE a.outsize,
     initialW |-> IF a.initialW = None THEN Initializer("HeNormal") ELSE a.initialW,
     out_channels |-> a.out_channels,
     deterministic |-> a.deterministic,
     _params |-> <<>>,
     W |-> Unset,
     b |-> Unset]

\* lines 127-136: the plain attributes.
Attributes(a) ==
    [ksize |-> a.ksize,
     stride |-> _pair(a.stride),
     pad |-> _pair(a.pad),
     outsize |-> IF a.outsize = None THEN PyTuple(<<None, None>>) ELSE a.outsize,
     initialW |-> IF a.initialW = None THEN Initializer("HeNormal") ELSE a.initialW,
     out_channels |-> a.out_channels,
     deterministic |-> a.deterministic,
     _params |-> <<>>,
     W |-> Unset,
     b |-> Unset]

\* faulty variant: the weight is left unshaped whatever in_channels is
WeightNeverShapedEarly(s, a) ==
    add_param(s, "W", None, _get_initializer(a.initialW))

\* lines 138-141: the weight is registered unshaped, and shaped at once when
\* in_channels is known.
Weight(s, a) ==
    LET s1 == add_param(s, "W", None, _get_initializer(a.initialW))
    IN  IF a.in_channels # None
        THEN _initialize_params(s1, a.in_channels.val)
        ELSE s1

\* faulty variant: no Constant(0) when initial_bias is None
BiasForgetsZeroDefault(s, a) ==
    IF a.nobias
    THEN [raised |-> FALSE, self |-> [s EXCEPT !.b = None]]
    ELSE IF IsArray(a.initial_bias)
            /\ a.initial_bias.shape # <<a.out_channels.val>>
         THEN [raised |-> TRUE, self |-> s]
         ELSE [raised |-> FALSE,
               self |-> add_param(s, "b", a.out_channels,
                                  _get_initializer(a.initial_bias))]

\* lines 143-151: the bias; [raised, self].
Bias(s, a) ==
    IF a.nobias
    THEN [raised |-> FALSE, self |-> [s EXCEPT !.b = None]]
    ELSE IF IsArray(a.initial_bias)
            /\ a.initial_bias.shape # <<a.out_channels.val>>
         THEN [raised |-> TRUE, self |-> s]
         ELSE LET initial_bias == IF a.initial_bias = None
                                  THEN Initializer("Constant0")
                                  ELSE a.initial_bias
                  bias_initializer == _get_initializer(initial_bias)
              IN  [raised |-> FALSE,
                   self |-> add_param(s, "b", a.out_channels, bias_initializer)]

__init__(a0) ==
    LET a == Shuffle(a0)
    IN  Bias(Weight(Attributes(a), a), a)

---------------------------------------------------------------------------
(* functions.deconvolution_2d, the external operator: it is given the      *)
(* input, the weight, the bias or None, stride, pad, the output-size hint  *)
(* and the determinism flag, and returns a tensor or rejects the call.     *)

\* the size of a convolution's output.  An output-size hint is valid when
\* a convolution of an array of that size gives back the input's size; the
\* operator rejects any other hint.
get_conv_outsize(size, k, s, p) == ((size + 2 * p - k) \div s) + 1

\* the output's size along one axis
get_deconv_outsize(size, k, s, p) == s * (size - 1) + k - 2 * p

deconvolution_2d(x, W, b, stride, pad, outsize, deterministic) ==
    LET kh == W.data.shape[3]
        kw == W.data.shape[4]
        sy == stride.val[1].val
        sx == stride.val[2].val
        ph == pad.val[1].val
        pw == pad.val[2].val
        in_h == x.shape[3]
        in_w == x.shape[4]
        out_h == IF outsize.val[1] = None
                 THEN get_deconv_outsize(in_h, kh, sy, ph)
                 ELSE outsize.val[1].val
        out_w == IF outsize.val[2] = None
                 THEN get_deconv_outsize(in_w, kw, sx, pw)
                 ELSE outsize.val[2].val
    IN  IF x.shape[2] # W.data.shape[1]
        THEN Raised("channels")
        ELSE IF \/ get_conv_outsize(out_h, kh, sy, ph) # in_h
                \/ get_conv_outsize(out_w, kw, sx, pw) # in_w
             THEN Raised("outsize")
             ELSE [tag |-> "Variable",
                   shape |-> <<x.shape[1], W.data.shape[2], out_h, out_w>>]

---------------------------------------------------------------------------
(* Deconvolution2D.__call__ *)

\* faulty variant: the test of line 159 left out
NeedsInitAlways(s) == TRUE

\* line 159
NeedsInit(s) == s.W.data = None

\* faulty variant: self.stride handed over as pad
OperatorArgsPadFromStride(s, x) ==
    [x |-> x, W |-> s.W, b |-> s.b, stride |-> s.stride, pad |-> s.stride,
     outsize |-> s.outsize, deterministic |-> s.deterministic]

\* faulty variant: the determinism flag not handed over
OperatorArgsDropDeterministic(s, x) ==
    [x |-> x, W |-> s.W, b |-> s.b, stride |-> s.stride, pad |-> s.pad,
     outsize |-> s.outsize, deterministic |-> FALSE]

\* lines 161-163: the arguments handed to the operator
OperatorArgs(s, x) ==
    [x |-> x, W |-> s.W, b |-> s.b, stride |-> s.stride, pad |-> s.pad,
     outsize |-> s.outsize, deterministic |-> s.deterministic]

Operate(o) ==
    deconvolution_2d(o.x, o.W, o.b, o.stride, o.pad, o.outsize, o.deterministic)

\* faulty variant: the weight finalized at every invocation
CallAlwaysInitializes(s, x) ==
    LET s1 == _initialize_params(s, x.shape[2])
        o == OperatorArgs(s1, x)
    IN  [self |-> s1, opArgs |-> o, ret |-> Operate(o)]

\* faulty variant: the finalization undone when the operator rejects
CallRollsBack(s, x) ==
    LET s1 == IF NeedsInit(s) THEN _initialize_params(s, x.shape[2]) ELSE s
        o == OperatorArgs(s1, x)
        r == Operate(o)
    IN  [self |-> IF r.tag = "error" THEN s ELSE s1, opArgs |-> o, ret |-> r]

\* the whole of __call__: [self, opArgs, ret]
__call__(s, x) ==
    LET s1 == IF NeedsInit(s) THEN _initialize_params(s, x.shape[2]) ELSE s
        o == OperatorArgs(s1, x)
    IN  [self |-> s1, opArgs |-> o, ret |-> Operate(o)]

---------------------------------------------------------------------------
(* The arguments and inputs the model draws from. *)

Scalars(lo, hi) == {PyInt(v) : v \in lo..hi}
Pairs(lo, hi) == {PyPair(v, v) : v \in lo..hi}

InChannels == {None} \cup Scalars(2, MaxChannels)
OutChannels == {PyInt(7)}
KSizes == {PyInt(4), PyPair(4, 4), PyPair(3, 4)}
Strides == Scalars(1, MaxStride) \cup Pairs(MaxStride, MaxStride)
               \cup {PyPair(MaxStride, 1)}
Pads == Scalars(0, MaxPad) \cup Pairs(MaxPad, MaxPad)
OutSizes == {None, PyPair(20, 20)}
InitialWs == {None, Initializer("custom")}
InitialBiases == {None, Initializer("custom"),
                  ndarray(<<7>>, "given"), ndarray(<<5>>, "given")}

Keywords ==
    [stride : Strides, pad : Pads, nobias : BOOLEAN, outsize : OutSizes,
     initialW : InitialWs, initial_bias : InitialBiases,
     deterministic : BOOLEAN]

MakeArgs(i, o, k, kw) ==
    [in_channels |-> i, out_channels |-> o, ksize |-> k,
     stride |-> kw.stride, pad |-> kw.pad, nobias |-> kw.nobias,
     outsize |-> kw.outsize, initialW |-> kw.initialW,
     initial_bias |-> kw.initial_bias, deterministic |-> kw.deterministic]

\* Deconvolution2D(in_channels, out_channels, ksize, **kw)
GivenArgs ==
    {MakeArgs(i, o, k, kw) : i \in InChannels, o \in OutChannels,
                             k \in KSizes, kw \in Keywords}

\* Deconvolution2D(out_channels, ksize, **kw)
OmittedArgs ==
    {MakeArgs(o, k, None, kw) : o \in OutChannels, k \in KSizes, kw \in Keywords}

\* Deconvolution2D(None, out_channels, ksize, **kw) for an omitted form
SpelledOut(a) ==
    [a EXCEPT !.in_channels = None, !.out_channels = a.in_channels,
              !.ksize = a.out_channels]

Inputs ==
    {ndarray(<<n, c, hw[1], hw[2]>>, "input") :
        n \in 1..MaxBatch, c \in 2..MaxChannels, hw \in {<<10, 10>>, <<5, 6>>}}

Threads == 1..NumThreads

IdleThread == [pc |-> "idle", x |-> Unset, inited |-> FALSE, ret |-> Unset]

---------------------------------------------------------------------------
(* One link, invoked by one caller at a time. *)

Init ==
    /\ pc = "new"
    /\ args = Unset
    /\ self = Unset
    /\ opArgs = Unset
    /\ ret = Unset
    /\ twin = Unset
    /\ threads = [t \in Threads |-> IdleThread]

Construct(a) ==
    /\ pc = "new"
    /\ LET r == __init__(a)
       IN  /\ pc' = IF r.raised THEN "failed" ELSE "ready"
           /\ self' = r.self
    /\ args' = a
    /\ UNCHANGED <<opArgs, ret, twin, threads>>

Call(x) ==
    /\ pc = "ready"
    /\ LET r == __call__(self, x)
       IN  /\ self' = r.self
           /\ opArgs' = r.opArgs
           /\ ret' = r.ret
    /\ UNCHANGED <<pc, args, twin, threads>>

Next ==
    \/ pc = "new" /\ \E a \in GivenArgs \cup OmittedArgs : Construct(a)
    \/ pc = "ready" /\ \E x \in Inputs : Call(x)

Spec == Init /\ [][Next]_vars

---------------------------------------------------------------------------
(* Two links built from the two spellings of the same arguments,           *)
(* Deconvolution2D(a, b, **kw) and Deconvolution2D(None, a, b, **kw), and  *)
(* invoked on the same inputs.                                             *)

ConstructBoth(a) ==
    /\ pc = "new"
    /\ LET r == __init__(a)
           r2 == __init__(SpelledOut(a))
       IN  /\ pc' = IF r.raised THEN "failed" ELSE "ready"
           /\ self' = r.self
           /\ twin' = [pc |-> IF r2.raised THEN "failed" ELSE "ready",
                       self |-> r2.self, opArgs |-> Unset, ret |-> Unset]
    /\ args' = a
    /\ UNCHANGED <<opArgs, ret, threads>>

CallBoth(x) ==
    /\ pc = "ready"
    /\ twin.pc = "ready"
    /\ LET r == __call__(self, x)
           r2 == __call__(twin.self, x)
       IN  /\ self' = r.self
           /\ opArgs' = r.opArgs
           /\ ret' = r.ret
           /\ twin' = [twin EXCEPT !.self = r2.self, !.opArgs = r2.opArgs,
                                   !.ret = r2.ret]
    /\ UNCHANGED <<pc, args, threads>>

EquivNext ==
    \/ pc = "new" /\ \E a \in OmittedArgs : ConstructBoth(a)
    \/ pc = "ready" /\ \E x \in Inputs : CallBoth(x)

EquivSpec == Init /\ [][EquivNext]_vars

---------------------------------------------------------------------------
(* One link invoked from several threads: __call__ in its steps.  The test *)
(* of line 159, the finalization of line 160 and the operator call of      *)
(* lines 161-163 are separate steps, as nothing in the code locks them.    *)

ConcArgs ==
    {a \in GivenArgs \cup OmittedArgs :
        /\ a.stride = PyInt(1)
        /\ a.pad = PyInt(0)
        /\ a.outsize = None
        /\ a.initialW = None
        /\ a.initial_bias = None
        /\ ~a.deterministic}

ConcInputs == {x \in Inputs : x.shape[1] = 1 /\ x.shape[3] = x.shape[4]}

ConcInit ==
    /\ pc = "ready"
    /\ args \in ConcArgs
    /\ self = __init__(args).self
    /\ opArgs = Unset
    /\ ret = Unset
    /\ twin = Unset
    /\ threads = [t \in Threads |-> IdleThread]

\* line 159: the test
Enter(t, x) ==
    /\ threads[t].pc = "idle"
    /\ threads' = [threads EXCEPT ![t] =
                      [pc |-> IF NeedsInit(self) THEN "init" ELSE "operate",
                       x |-> x, inited |-> FALSE, ret |-> Unset]]
    /\ UNCHANGED <<pc, args, self, opArgs, ret, twin>>

\* line 160
Finalize(t) ==
    /\ threads[t].pc = "init"
    /\ self' = _initialize_params(self, threads[t].x.shape[2])
    /\ threads' = [threads EXCEPT ![t].pc = "operate", ![t].inited = TRUE]
    /\ UNCHANGED <<pc, args, opArgs, ret, twin>>

\* lines 161-163
Return(t) ==
    /\ threads[t].pc = "operate"
    /\ threads' = [threads EXCEPT ![t] =
                      [pc |-> "idle", x |-> Unset, inited |-> FALSE,
                       ret |-> Operate(OperatorArgs(self, threads[t].x))]]
    /\ UNCHANGED <<pc, args, self, opArgs, ret, twin>>

ConcNext ==
    \E t \in Threads :
        \/ \E x \in ConcInputs : Enter(t, x)
        \/ Finalize(t)
        \/ Return(t)

ConcSpec == ConcInit /\ [][ConcNext]_vars

---------------------------------------------------------------------------
(* What the arguments mean to the caller, read off args alone. *)

\* in_channels was given and is not None
Known(a) == a.ksize # None /\ a.in_channels # None

GivenOut(a) == IF a.ksize = None THEN a.in_channels.val ELSE a.out_channels.val
GivenKSize(a) == IF a.ksize = None THEN a.out_channels ELSE a.ksize

\* the first and second component of a scalar-or-pair argument
First(v) == IF v.tag = "int" THEN v.val ELSE v.val[1].val
Second(v) == IF v.tag = "int" THEN v.val ELSE v.val[2].val

\* the weight shape the arguments ask for, with c input channels
WShapeFor(a, c) ==
    <<c, GivenOut(a), First(GivenKSize(a)), Second(GivenKSize(a))>>

Shaped(s) == s.W.data # None

\* the bias array given does not have the shape (out_channels,)
BiasMismatch(a) ==
    /\ ~a.nobias
    /\ IsArray(a.initial_bias)
    /\ a.initial_bias.shape # <<GivenOut(a)>>

Invoked == opArgs # Unset

\* a scalar is stored as the pair (v, v), an indexable value as it is
StoredAsPair(given, stored) ==
    IF given.tag = "int" THEN stored = PyPair(given.val, given.val)
    ELSE stored = given

\* the documentation's examples: Deconvolution2D(i, 7, 4, s, p)
Scenario(a, i, s, p) ==
    /\ a.in_channels = i
    /\ a.out_channels = PyInt(7)
    /\ a.ksize = PyInt(4)
    /\ a.stride = PyInt(s)
    /\ a.pad = PyInt(p)
    /\ a.outsize = None

---------------------------------------------------------------------------
(* The properties of the link. *)

\* the weight when __init__ has returned and before any invocation
C1_AtConstruction ==
    pc = "ready" =>
        /\ Known(args) =>
              /\ Shaped(self)
              /\ self.W.data.shape = WShapeFor(args, args.in_channels.val)
        /\ (~Known(args) /\ ~Invoked) => ~Shaped(self)
        /\ Invoked => Shaped(self)

C1_FirstInvocation ==
    (pc = "ready" /\ ~Shaped(self)) =>
        /\ Shaped(self')
        /\ self'.W.data.shape = WShapeFor(args, opArgs'.x.shape[2])

(* C1: a link constructed with a known in_channels has its weight shaped   *)
(* (in_channels, out_channels, kh, kw) when construction returns; one      *)
(* constructed with in_channels None or omitted has an unshaped weight     *)
(* until it is invoked, and the first invocation shapes it                 *)
(* (c, out_channels, kh, kw), c being axis 1 of that input.                *)
C1_WeightShape == [](C1_AtConstruction) /\ [][C1_FirstInvocation]_vars

C1_Witness ==
    /\ pc = "ready"
    /\ ~Known(args)
    /\ Invoked
    /\ self.W.data.shape = WShapeFor(args, 3)

(* C2: once the weight is shaped no invocation changes it, whatever the    *)
(* channel count of the input.                                             *)
C2_ShapeLocked ==
    [][(pc = "ready" /\ Shaped(self)) => self'.W = self.W]_vars

C2_Witness ==
    /\ pc = "ready"
    /\ Invoked
    /\ opArgs.x.shape[2] # self.W.data.shape[1]

(* C3, as claimed: when a bias array of the wrong shape fails              *)
(* construction, no parameter has been created or shaped.                  *)
C3_NoSideEffect ==
    pc = "failed" => (self._params = <<>> /\ self.W = Unset)

(* C3, amended: construction fails exactly on a bias array of the wrong    *)
(* shape, before the bias parameter is created but after the weight: the   *)
(* weight is registered, and shaped (in_channels, out_channels, kh, kw)    *)
(* when in_channels is known.                                              *)
C3_FailsAfterWeight ==
    /\ pc # "new" => (pc = "failed" <=> BiasMismatch(args))
    /\ pc = "failed" =>
          /\ self._params = <<"W">>
          /\ self.b = Unset
          /\ self.W.tag = "Parameter"
          /\ Known(args) =>
                /\ Shaped(self)
                /\ self.W.data.shape = WShapeFor(args, args.in_channels.val)
          /\ ~Known(args) => ~Shaped(self)

C3_Witness == pc = "failed" /\ Known(args) /\ Shaped(self)

(* C4: after construction and any invocations the bias is absent exactly   *)
(* when nobias was set; when present it has length out_channels, and is    *)
(* zero-filled when no bias initializer was given.                         *)
C4_Bias ==
    pc = "ready" =>
        /\ self.b = None <=> args.nobias
        /\ ~args.nobias =>
              /\ self.b.tag = "Parameter"
              /\ self._params = <<"W", "b">>
              /\ self.b.data # None
              /\ self.b.data.shape = <<GivenOut(args)>>
              /\ args.initial_bias = None => self.b.data.fill = "Constant0"
        /\ args.nobias => self._params = <<"W">>

C4_Witness ==
    /\ pc = "ready"
    /\ Invoked
    /\ ~args.nobias
    /\ args.initial_bias = None
    /\ self.b.data = ndarray(<<7>>, "Constant0")

(* C5, as claimed: a scalar stride, pad or ksize is stored as the pair     *)
(* (v, v), and an indexable one is stored unchanged.                       *)
C5_AllNormalized ==
    pc = "ready" =>
        /\ StoredAsPair(args.stride, self.stride)
        /\ StoredAsPair(args.pad, self.pad)
        /\ StoredAsPair(GivenKSize(args), self.ksize)

(* C5, amended: stride and pad are stored as pairs, (v, v) for a scalar v  *)
(* and unchanged when indexable; ksize is stored as given, and is turned   *)
(* into a pair only where the weight shape is computed, so that ksize=v    *)
(* and ksize=(v, v) give the same weight shape.                            *)
C5_StrideAndPadNormalized ==
    pc = "ready" =>
        /\ StoredAsPair(args.stride, self.stride)
        /\ StoredAsPair(args.pad, self.pad)
        /\ self.ksize = GivenKSize(args)
        /\ Shaped(self) =>
              /\ self.W.data.shape[3] = First(GivenKSize(args))
              /\ self.W.data.shape[4] = Second(GivenKSize(args))

C5_Witness ==
    /\ pc = "ready"
    /\ args.stride.tag = "int"
    /\ args.pad.tag = "int"
    /\ self.ksize.tag = "int"
    /\ Shaped(self)

(* C6: Deconvolution2D(a, b, **kw) takes a as out_channels and b as ksize, *)
(* leaves the weight unshaped, and is in the same state and returns the    *)
(* same as Deconvolution2D(None, a, b, **kw) after every sequence of       *)
(* invocations.                                                            *)
C6_SameAsSpelledOut ==
    pc # "new" =>
        /\ twin = [pc |-> pc, self |-> self, opArgs |-> opArgs, ret |-> ret]
        /\ self.out_channels = args.in_channels
        /\ self.ksize = args.out_channels
        /\ ~Invoked => ~Shaped(self)

C6_Witness ==
    /\ pc = "ready"
    /\ args.ksize = None
    /\ ret.tag = "Variable"
    /\ twin.ret = ret
    /\ twin.self = self

(* C7: with no output size fixed, an input (N, C, H, W) whose channels the *)
(* weight accepts gives an output (N, out_channels, sh*(H-1)+kh-2*ph,      *)
(* sw*(W-1)+kw-2*pw); the two scenarios of the documentation give          *)
(* (1, 7, 13, 13) and (1, 7, 20, 20), the latter with 3 input channels     *)
(* inferred.                                                               *)
C7_OutputShape ==
    (pc = "ready" /\ Invoked /\ args.outsize = None
        /\ opArgs.x.shape[2] = self.W.data.shape[1]) =>
        LET xs == opArgs.x.shape
            k == GivenKSize(args)
        IN  /\ ret.tag = "Variable"
            /\ ret.shape =
                 <<xs[1], GivenOut(args),
                   First(args.stride) * (xs[3] - 1) + First(k)
                       - 2 * First(args.pad),
                   Second(args.stride) * (xs[4] - 1) + Second(k)
                       - 2 * Second(args.pad)>>
            /\ (Scenario(args, PyInt(3), 1, 0) /\ xs = <<1, 3, 10, 10>>) =>
                  ret.shape = <<1, 7, 13, 13>>
            /\ (Scenario(args, None, 2, 1) /\ xs = <<1, 3, 10, 10>>) =>
                  /\ ret.shape = <<1, 7, 20, 20>>
                  /\ self.W.data.shape[1] = 3

C7_Witness ==
    /\ pc = "ready"
    /\ Scenario(args, None, 2, 1)
    /\ Invoked
    /\ opArgs.x.shape = <<1, 3, 10, 10>>
    /\ ret.tag = "Variable"
    /\ ret.shape = <<1, 7, 20, 20>>

(* C8: invoking a link whose weight is shaped changes nothing of the link, *)
(* hands the operator exactly the stored weight, bias, stride, pad, output *)
(* size and determinism flag, and returns the operator's result.           *)
C8_Frame ==
    [][(pc = "ready" /\ Shaped(self)) =>
          /\ self' = self
          /\ pc' = pc
          /\ opArgs' = [x |-> opArgs'.x, W |-> self.W, b |-> self.b,
                        stride |-> self.stride, pad |-> self.pad,
                        outsize |-> self.outsize,
                        deterministic |-> self.deterministic]
          /\ ret' = Operate(opArgs')]_vars

C8_Witness ==
    /\ pc = "ready"
    /\ Known(args)
    /\ args.deterministic
    /\ ~args.nobias
    /\ Invoked
    /\ opArgs.deterministic
    /\ ret.tag = "Variable"

C9_FirstRejected ==
    (pc = "ready" /\ ~Shaped(self) /\ ret'.tag = "error") =>
        /\ ret' = Operate(opArgs')
        /\ Shaped(self')
        /\ self'.W.data.shape = WShapeFor(args, opArgs'.x.shape[2])

C9_AfterRejected ==
    (pc = "ready" /\ ret.tag = "error") =>
        /\ Shaped(self)
        /\ self'.W = self.W

(* C9: a rejection by the operator is what the invocation raises, and      *)
(* nothing is rolled back: a first invocation that is rejected leaves the  *)
(* weight shaped (c, out_channels, kh, kw) for its input's c, and the      *)
(* invocations after a rejected one leave the weight as it is.             *)
C9_NoRollback == [][C9_FirstRejected /\ C9_AfterRejected]_vars

C9_Witness ==
    /\ pc = "ready"
    /\ ~Known(args)
    /\ args.stride = PyInt(1)
    /\ args.outsize # None
    /\ ret.tag = "error"
    /\ ret.kind = "channels"

C10_OnlyFinalize ==
    self' # self =>
        \E t \in Threads :
            /\ threads[t].pc = "init"
            /\ threads'[t].pc = "operate"
            /\ self' = [self EXCEPT !.W.data =
                           ndarray(WShapeFor(args, threads[t].x.shape[2]),
                                   self.W.initializer.kind)]

C10_ShapedIsStable ==
    (Shaped(self) /\ \A t \in Threads : threads[t].pc # "init") => self' = self

C10_EagerNeverInit ==
    Known(args) => (Shaped(self) /\ \A t \in Threads : threads[t].pc # "init")

(* C10: threads invoking one link change it only by finalizing the weight, *)
(* and only threads that saw the weight unshaped do so: a link shaped at   *)
(* construction, or shaped with no thread between the test and the         *)
(* finalization, is never modified.  Two threads that both saw it unshaped *)
(* both finalize it, the later one deciding the shape.                     *)
C10_Interference ==
    /\ [](C10_EagerNeverInit)
    /\ [][C10_OnlyFinalize /\ C10_ShapedIsStable]_vars

C10_Witness ==
    /\ threads[1].inited
    /\ threads[2].inited
    /\ threads[1].x.shape[2] # threads[2].x.shape[2]
    /\ self.W.data.shape[1] = threads[1].x.shape[2]

=============================================================================
